---- MODULE Spec2Model ----
(***************************************************************************)
(* Potluck planner server (src/src/server.js).  The file holds two         *)
(* variants of the same server: lines 1-179 persist the in-memory map in a *)
(* Firestore collection, lines 183-322 persist it in a flat JSON file.     *)
(* One state machine models both; the variable `variant` says which one    *)
(* is running.                                                             *)
(*                                                                         *)
(* Node runs every handler to its first real suspension point (a file      *)
(* system or network call) without interleaving, so one action models one  *)
(* such run; the steps of a flush that happen outside the event loop       *)
(* (open/truncate, write, server side read and commit) are actions of      *)
(* their own and interleave freely with other requests.                    *)
(***************************************************************************)
EXTENDS Integers, Sequences, FiniteSets, TLC

\* ------------------------------------------------------------------ bounds
MaxReqs == 2      \* requests that arrive in one run
MaxClock == 1     \* Date.now() takes the values 0..MaxClock

Reqs == 1..MaxReqs
Variants == {"file", "firestore"}

\* ----------------------------------------------------------------- strings
\* A string is a sequence of tokens: " " is one whitespace character, any
\* other token is a run of non-whitespace characters.
Space == " "

\* String.prototype.toLowerCase on one token
LowerTok(t) ==
  CASE t = "Entree" -> "entree"
    [] t = "DESSERT" -> "dessert"
    [] t = "Appetizers" -> "appetizers"
    [] OTHER -> t

ToLowerCase(s) == [k \in 1..Len(s) |-> LowerTok(s[k])]

RECURSIVE TrimStart(_)
TrimStart(s) == IF s # <<>> /\ Head(s) = Space THEN TrimStart(Tail(s)) ELSE s

RECURSIVE TrimEnd(_)
TrimEnd(s) ==
  IF s # <<>> /\ s[Len(s)] = Space THEN TrimEnd(SubSeq(s, 1, Len(s) - 1)) ELSE s

\* String.prototype.trim
Trim(s) == TrimEnd(TrimStart(s))

\* Number of characters of a token, and of a string.
TokLen(t) ==
  CASE t = Space -> 1
    [] t \in {"Amy", "Bob", "Pie"} -> 3
    [] t \in {"Salad"} -> 5
    [] t \in {"entree"} -> 6
    [] t \in {"dessert"} -> 7
    [] OTHER -> 9

RECURSIVE StrLen(_)
StrLen(s) == IF s = <<>> THEN 0 ELSE TokLen(Head(s)) + StrLen(Tail(s))

\* ------------------------------------------------------------ request body
\* A JSON value of the request body: undefined (field absent), a number, or a
\* string.
Undefined == [t |-> "undefined", s |-> <<>>]
Num == [t |-> "number", s |-> <<>>]
Str(s) == [t |-> "string", s |-> s]

Allowed == {<<"appetizers">>, <<"entree">>, <<"dessert">>, <<"beverages">>}

NoValue == [name |-> <<>>, dish |-> <<>>, section |-> <<>>]

\* validateItem without its dish rule: a faulty variant, against which
\* C8_PartialRejected is seen to depend on the rule.
validateItemNoDish(payload) ==
  LET name == IF payload.name.t = "string" THEN Trim(payload.name.s) ELSE <<>>
      dish == IF payload.dish.t = "string" THEN Trim(payload.dish.s) ELSE <<>>
      section == IF payload.section.t = "string"
                 THEN ToLowerCase(Trim(payload.section.s)) ELSE <<>>
  IN  IF name = <<>> THEN [ok |-> FALSE, error |-> "Name is required", value |-> NoValue]
      ELSE IF section \notin Allowed
      THEN [ok |-> FALSE, error |-> "Section must be one of appetizers, entree, dessert, beverages", value |-> NoValue]
      ELSE [ok |-> TRUE, error |-> "",
            value |-> [name |-> name, dish |-> dish, section |-> section]]

\* validateItem that tests the lowercased section and returns the section as
\* sent: a faulty variant, against which C12_WellFormed is seen to depend on
\* the normalization.
validateItemRawSection(payload) ==
  LET name == IF payload.name.t = "string" THEN Trim(payload.name.s) ELSE <<>>
      dish == IF payload.dish.t = "string" THEN Trim(payload.dish.s) ELSE <<>>
      section == IF payload.section.t = "string"
                 THEN ToLowerCase(Trim(payload.section.s)) ELSE <<>>
  IN  IF name = <<>> THEN [ok |-> FALSE, error |-> "Name is required", value |-> NoValue]
      ELSE IF dish = <<>>
      THEN [ok |-> FALSE, error |-> "Dish is required", value |-> NoValue]
      ELSE IF section \notin Allowed
      THEN [ok |-> FALSE, error |-> "Section must be one of appetizers, entree, dessert, beverages", value |-> NoValue]
      ELSE [ok |-> TRUE, error |-> "",
            value |-> [name |-> name, dish |-> dish, section |-> payload.section.s]]

\* validateItem with the section rule moved before the name rule: a faulty
\* variant, against which C11_RuleOrder is seen to depend on the order.
validateItemSectionFirst(payload) ==
  LET name == IF payload.name.t = "string" THEN Trim(payload.name.s) ELSE <<>>
      dish == IF payload.dish.t = "string" THEN Trim(payload.dish.s) ELSE <<>>
      section == IF payload.section.t = "string"
                 THEN ToLowerCase(Trim(payload.section.s)) ELSE <<>>
  IN  IF section \notin Allowed
      THEN [ok |-> FALSE, error |-> "Section must be one of appetizers, entree, dessert, beverages", value |-> NoValue]
      ELSE IF name = <<>>
      THEN [ok |-> FALSE, error |-> "Name is required", value |-> NoValue]
      ELSE IF dish = <<>>
      THEN [ok |-> FALSE, error |-> "Dish is required", value |-> NoValue]
      ELSE [ok |-> TRUE, error |-> "",
            value |-> [name |-> name, dish |-> dish, section |-> section]]

\* validateItem (lines 93-102, 236-245)
validateItem(payload) ==
  LET name == IF payload.name.t = "string" THEN Trim(payload.name.s) ELSE <<>>
      dish == IF payload.dish.t = "string" THEN Trim(payload.dish.s) ELSE <<>>
      section == IF payload.section.t = "string"
                 THEN ToLowerCase(Trim(payload.section.s)) ELSE <<>>
  IN  IF name = <<>> THEN [ok |-> FALSE, error |-> "Name is required", value |-> NoValue]
      ELSE IF dish = <<>>
      THEN [ok |-> FALSE, error |-> "Dish is required", value |-> NoValue]
      ELSE IF section \notin Allowed
      THEN [ok |-> FALSE, error |-> "Section must be one of appetizers, entree, dessert, beverages", value |-> NoValue]
      ELSE [ok |-> TRUE, error |-> "",
            value |-> [name |-> name, dish |-> dish, section |-> section]]

\* Values a client may put in the body's id and createdAt/updatedAt fields;
\* the server itself never produces them.
BodyId == "zz"
BodyStamp == MaxClock + 97

Body(name, dish, section, extra) ==
  [name |-> name, dish |-> dish, section |-> section,
   id |-> IF extra THEN Str(<<BodyId>>) ELSE Undefined,
   createdAt |-> IF extra THEN BodyStamp ELSE -1,
   updatedAt |-> IF extra THEN BodyStamp ELSE -1]

\* A request without a body.
NoBody == Body(Undefined, Undefined, Undefined, FALSE)

\* The request bodies the clients send.
Payloads ==
  { Body(Str(<<Space, "Amy", Space>>), Str(<<"Salad">>), Str(<<"Entree">>), TRUE),
    Body(Str(<<"Bob">>), Str(<<Space, "Pie">>), Str(<<"dessert">>), FALSE),
    Body(Undefined, Str(<<"Pie">>), Str(<<"dessert">>), FALSE),
    Body(Str(<<"Bob">>), Undefined, Str(<<"entree">>), TRUE),
    Body(Str(<<"Amy">>), Str(<<"Salad">>), Undefined, FALSE) }

\* The values validateItem is tried on: a field that is absent, no string,
\* empty, blank, padded, of several words, in upper or mixed case.
NameValues ==
  { Undefined, Num, Str(<<>>), Str(<<Space>>), Str(<<Space, "Amy", Space>>),
    Str(<<"Bob">>), Str(<<"Amy", Space, "Bob">>) }
DishValues ==
  { Undefined, Num, Str(<<Space, Space>>), Str(<<"Salad">>), Str(<<Space, "Pie">>) }
SectionValues ==
  { Undefined, Num, Str(<<>>), Str(<<"Entree">>), Str(<<Space, "DESSERT", Space>>),
    Str(<<"Appetizers">>), Str(<<"beverages">>), Str(<<"Pie">>),
    Str(<<"entree", Space, "dessert">>) }
ValidatePayloads ==
  { Body(n, d, s, FALSE) : n \in NameValues, d \in DishValues, s \in SectionValues }

\* A body that leaves out one of name, dish, section.
Omits(payload) ==
  \/ payload.name.t = "undefined"
  \/ payload.dish.t = "undefined"
  \/ payload.section.t = "undefined"

\* -------------------------------------------------------------------- ids
\* Math.random().toString(36).slice(2, 10): up to eight base-36 digits; the
\* empty string when Math.random() returns 0 ("0".slice(2) is "").  Nothing
\* keeps two calls from returning the same string.
EmptyId == ""
Ids == {EmptyId, "k1", "k2"}

\* ------------------------------------------------------------------ items
\* memoryStore.items and the arrays and batches made from it: a function
\* from a set of ids to records.
EmptyMap == [i \in {} |-> 0]

\* memoryStore.items.set(k, v)
Put(m, k, v) == [i \in DOMAIN m \cup {k} |-> IF i = k THEN v ELSE m[i]]

\* A delete that removes nothing: a faulty variant, against which C9_Delete
\* is seen to depend on Remove.
RemoveNothing(m, k) == m

\* memoryStore.items.delete(k)

Remove(m, k) == [i \in DOMAIN m \ {k} |-> m[i]]

\* An item made without its id: a faulty variant, against which C19_KeyIsId
\* is seen to depend on NewItem.
NewItemNoId(id, value, now) ==
  [id |-> EmptyId, name |-> value.name, dish |-> value.dish, section |-> value.section,
   createdAt |-> now, updatedAt |-> now]

\* An item whose two timestamps differ: a faulty variant, against which
\* C6_CreateThenList is seen to depend on NewItem.
NewItemStamped(id, value, now) ==
  [id |-> id, name |-> value.name, dish |-> value.dish, section |-> value.section,
   createdAt |-> now, updatedAt |-> now + 1]

\* { id, ...value, createdAt: now, updatedAt: now }
NewItem(id, value, now) ==
  [id |-> id, name |-> value.name, dish |-> value.dish, section |-> value.section,
   createdAt |-> now, updatedAt |-> now]

\* An update that also resets createdAt: a faulty variant, against which
\* C7_Update is seen to depend on UpdatedItem.
UpdatedItemRestamped(old, value, now) ==
  [old EXCEPT !.name = value.name, !.dish = value.dish, !.section = value.section,
              !.createdAt = now, !.updatedAt = now]

\* { ...memoryStore.items.get(id), ...value, updatedAt: now }
UpdatedItem(old, value, now) ==
  [old EXCEPT !.name = value.name, !.dish = value.dish, !.section = value.section,
              !.updatedAt = now]

\* const { id: _omit, ...rest } = item
Rest(item) ==
  [name |-> item.name, dish |-> item.dish, section |-> item.section,
   createdAt |-> item.createdAt, updatedAt |-> item.updatedAt]

\* { id: doc.id, ...data }: a field id of the data, if there is one, replaces
\* the document's id.
FromDoc(id, data) ==
  [id |-> IF "id" \in DOMAIN data THEN data.id ELSE id,
   name |-> data.name, dish |-> data.dish, section |-> data.section,
   createdAt |-> data.createdAt, updatedAt |-> data.updatedAt]

\* --------------------------------------------------------- the flat file
\* The data file is absent, or holds text: the JSON of an array of items
\* ("json"), or bytes of several writers that are no JSON ("corrupt").  len is
\* the text's length; a file just truncated is "json" text of length 0, which
\* loadFromDisk reads as '[]' (raw || '[]').
NoFile == [state |-> "absent", arr |-> EmptyMap, len |-> 0]
Truncated == [state |-> "json", arr |-> EmptyMap, len |-> 0]

IdLen(id) == IF id = EmptyId THEN 0 ELSE 8

\* Length of one item in JSON.stringify(arr, null, 2): 135 characters of
\* braces, keys, quotes, indentation and two 13-digit timestamps, plus the
\* four strings.
ItemLen(it) == 135 + IdLen(it.id) + StrLen(it.name) + StrLen(it.dish) + StrLen(it.section)

RECURSIVE SumLen(_, _)
SumLen(m, ids) ==
  IF ids = {} THEN 0
  ELSE LET i == CHOOSE x \in ids : TRUE IN ItemLen(m[i]) + 2 + SumLen(m, ids \ {i})

\* Length of JSON.stringify(arr, null, 2): "[]" for the empty array, else
\* "[\n", the items joined by ",\n", "\n]".
JsonLen(arr) == IF DOMAIN arr = {} THEN 2 ELSE 2 + SumLen(arr, DOMAIN arr)

JsonFile(arr) == [state |-> "json", arr |-> arr, len |-> JsonLen(arr)]

\* A writer's bytes land at offset 0 of whatever the file holds then: they
\* replace a text that is no longer, and leave the tail of a longer one.
Overlay(f, arr) ==
  IF f.len > JsonLen(arr)
  THEN [state |-> "corrupt", arr |-> EmptyMap, len |-> f.len]
  ELSE JsonFile(arr)

\* loadFromDisk, flat file (lines 218-229): what the map holds afterwards.  A
\* missing file and a text that JSON.parse rejects throw before clear(), so
\* the map keeps what it held; items with a falsy id are skipped.
LoadFile(f, held) ==
  IF f.state # "json" THEN held
  ELSE [i \in {j \in DOMAIN f.arr : f.arr[j].id # EmptyId} |-> f.arr[i]]

\* ------------------------------------------------- the document collection
\* batch.set(ref, rest, { merge: true }): the fields of rest replace the
\* document's, its other fields stay.
Merge(old, new) ==
  [k \in DOMAIN old \cup DOMAIN new |-> IF k \in DOMAIN new THEN new[k] ELSE old[k]]

\* A commit that drops the batch's deletes: a faulty variant, against which
\* C1_SoloFlush is seen to depend on Commit.
CommitWithoutDeletes(d, sets, dels) ==
  [i \in DOMAIN d \cup DOMAIN sets |->
     IF i \in DOMAIN sets
     THEN (IF i \in DOMAIN d THEN Merge(d[i], sets[i]) ELSE sets[i])
     ELSE d[i]]

\* batch.commit(): every set and every delete of the batch, atomically.
Commit(d, sets, dels) ==
  [i \in (DOMAIN d \cup DOMAIN sets) \ dels |->
     IF i \in DOMAIN sets
     THEN (IF i \in DOMAIN d THEN Merge(d[i], sets[i]) ELSE sets[i])
     ELSE d[i]]

\* loadFromDisk, Firestore (lines 53-65): one item per document.
LoadDocs(d) == [i \in DOMAIN d |-> FromDoc(i, d[i])]

\* ------------------------------------------------------------------- list
\* Collation rank of a token under localeCompare.
Rank(t) ==
  CASE t = Space -> 0
    [] t \in {"Amy", "appetizers"} -> 1
    [] t \in {"beverages", "Bob"} -> 2
    [] t = "dessert" -> 3
    [] t = "entree" -> 4
    [] OTHER -> 5

\* a.localeCompare(b): negative, zero or positive
RECURSIVE LocaleCompare(_, _)
LocaleCompare(a, b) ==
  IF a = <<>> /\ b = <<>> THEN 0
  ELSE IF a = <<>> THEN -1
  ELSE IF b = <<>> THEN 1
  ELSE IF Rank(Head(a)) < Rank(Head(b)) THEN -1
  ELSE IF Rank(Head(a)) > Rank(Head(b)) THEN 1
  ELSE LocaleCompare(Tail(a), Tail(b))

\* A comparator that looks at the section only: a faulty variant, against
\* which C13_Sorted is seen to depend on Compare.
CompareSectionOnly(a, b) == LocaleCompare(a.section, b.section)

\* (a, b) => a.section.localeCompare(b.section) || a.name.localeCompare(b.name)
Compare(a, b) ==
  IF LocaleCompare(a.section, b.section) # 0
  THEN LocaleCompare(a.section, b.section)
  ELSE LocaleCompare(a.name, b.name)

\* Array.from(memoryStore.items.values()) after items.sort(Compare): the
\* arrays that hold every value of the map once, in an order sort can leave
\* them in (the order of items that compare equal depends on the order of
\* insertion, which the model does not keep).
SortedLists(m) ==
  { s \in [1..Cardinality(DOMAIN m) -> {m[i] : i \in DOMAIN m}] :
      /\ \A i \in DOMAIN m : \E k \in DOMAIN s : s[k] = m[i]
      /\ \A k \in DOMAIN s : \A l \in DOMAIN s : k < l => Compare(s[k], s[l]) <= 0 }

\* ------------------------------------------------------------------ state
VARIABLES
  variant,      \* which of the two servers of server.js runs
  phase,        \* bootstrap's position: "boot", "ensured", "listening", "crashed"
  items,        \* memoryStore.items
  file,         \* the data file, data/items.json
  docs,         \* the Firestore collection 'items': document id -> data
  firestoreDb,  \* whether firestoreDb is set (getItemsCollection succeeded once)
  clock,        \* the latest value Date.now() returned
  req,          \* the requests: each one's position and locals
  call,         \* the route handler the step just taken entered, NoCall if none
  before,       \* memoryStore.items as the step just taken found it
  validated,    \* what validateItem returned in the step just taken, NoResult if not called
  resp,         \* the response the step just taken sent, NoResp if none
  hist          \* history: whether a flush failed, a 500 was sent, the load failed

vars ==
  <<variant, phase, items, file, docs, firestoreDb, clock, req, call, before,
    validated, resp, hist>>

NewReq ==
  [kind |-> "-", pc |-> "new", id |-> EmptyId, arr |-> EmptyMap, ids |-> {},
   body |-> <<>>, solo |-> FALSE]
DoneReq == [NewReq EXCEPT !.pc = "done"]

NoCall == [kind |-> "-", req |-> 0, id |-> EmptyId, payload |-> NoBody, now |-> 0]

\* validateItem was not called.
NoResult == [ok |-> FALSE, error |-> "-", value |-> NoValue]

\* flushed: "ok" when the request's flush wrote the backend, "failed" when it
\* did not, "none" when the request started none.  solo: no other request
\* was in flight between the request's arrival and this response.  wrote:
\* the array, or the batch of sets, that the request's flush sent to the
\* backend.
NoResp ==
  [req |-> 0, kind |-> "-", status |-> 0, id |-> EmptyId, flushed |-> "none",
   body |-> <<>>, solo |-> FALSE, wrote |-> EmptyMap]

\* What an earlier run of the server may have left in the durable backend:
\* nothing, or one item.
Seeds ==
  { EmptyMap,
    Put(EmptyMap, "k1",
        NewItem("k1", [name |-> <<"Amy">>, dish |-> <<"Salad">>, section |-> <<"entree">>], 0)) }

Init ==
  /\ variant \in Variants
  /\ phase = "boot"
  /\ items = EmptyMap
  /\ \E seed \in Seeds :
       IF variant = "file"
       THEN /\ file = (IF seed = EmptyMap THEN NoFile ELSE JsonFile(seed))
            /\ docs = EmptyMap
       ELSE /\ file = NoFile
            /\ docs = [i \in DOMAIN seed |-> Rest(seed[i])]
  /\ firestoreDb = FALSE
  /\ clock = 0
  /\ req = [r \in Reqs |-> NewReq]
  /\ call = NoCall
  /\ before = EmptyMap
  /\ validated = NoResult
  /\ resp = NoResp
  /\ hist = [flushFailed |-> FALSE, answered500 |-> FALSE, loadFailed |-> FALSE]

\* A step that sends no response.
Silent == resp' = NoResp /\ hist' = hist

\* A step that enters no route handler.
NoHandler == call' = NoCall /\ before' = items /\ validated' = NoResult

InFlight(r) == req[r].pc \notin {"new", "done"}
Quiescent == phase = "listening" /\ \A r \in Reqs : ~InFlight(r)

\* The durable backend as a map of items, and whether it holds one at all.
BackendReadable == variant = "firestore" \/ file.state = "json"
BackendItems == IF variant = "firestore" THEN LoadDocs(docs) ELSE file.arr

\* -------------------------------------------------------------- bootstrap
\* ensureDataFile (lines 44-51, 209-216): mkdir, then access, and writeFile of
\* '[]' when the file is not there.  bootstrap() awaits it with no catch: a
\* rejection ends the process.
EnsureDataFile ==
  /\ phase = "boot"
  /\ \/ /\ phase' = "ensured"
        /\ file' = IF file.state = "absent" THEN JsonFile(EmptyMap) ELSE file
     \/ /\ phase' = "crashed"
        /\ file' = file
  /\ NoHandler
  /\ Silent
  /\ UNCHANGED <<variant, items, docs, firestoreDb, clock, req>>

\* loadFromDisk without its try/catch: a faulty variant, against which
\* C14_LoadFails is seen to depend on the catch.
LoadFromDiskUncaught ==
  /\ phase = "ensured"
  /\ \/ /\ variant = "file"
        /\ file.state = "json"
        /\ phase' = "listening"
        /\ items' = LoadFile(file, items)
        /\ firestoreDb' = firestoreDb
        /\ hist' = hist
     \/ /\ variant = "firestore"
        /\ phase' = "listening"
        /\ firestoreDb' = TRUE
        /\ items' = LoadDocs(docs)
        /\ hist' = hist
     \/ /\ phase' = "crashed"
        /\ items' = items
        /\ firestoreDb' \in {firestoreDb, variant = "firestore"}
        /\ hist' = [hist EXCEPT !.loadFailed = TRUE]
  /\ NoHandler
  /\ resp' = NoResp
  /\ UNCHANGED <<variant, file, docs, clock, req>>

\* loadFromDisk (lines 53-65, 218-229), then app.listen.  A failure is caught
\* and logged, and the map keeps what it held: a file that cannot be read or
\* parsed; getItemsCollection that throws, which leaves firestoreDb unset; or
\* col.get() that rejects after firestoreDb was set.
LoadFromDisk ==
  /\ phase = "ensured"
  /\ phase' = "listening"
  /\ \/ /\ variant = "file"
        /\ file.state = "json"
        /\ items' = LoadFile(file, items)
        /\ firestoreDb' = firestoreDb
        /\ hist' = hist
     \/ /\ variant = "firestore"
        /\ firestoreDb' = TRUE
        /\ items' = LoadDocs(docs)
        /\ hist' = hist
     \/ /\ items' = items
        /\ firestoreDb' \in {firestoreDb, variant = "firestore"}
        /\ hist' = [hist EXCEPT !.loadFailed = TRUE]
  /\ NoHandler
  /\ resp' = NoResp
  /\ UNCHANGED <<variant, file, docs, clock, req>>

\* ---------------------------------------------------------------- requests
\* Request r arrives and its route handler is entered: requests are numbered
\* in order of arrival.
Arrives(r, kind, id, payload, now) ==
  /\ phase = "listening"
  /\ req[r].pc = "new"
  /\ \A q \in Reqs : q < r => req[q].pc # "new"
  /\ call' = [kind |-> kind, req |-> r, id |-> id, payload |-> payload, now |-> now]
  /\ before' = items
  /\ validated' = IF kind \in {"POST", "PUT"} THEN validateItem(payload) ELSE NoResult

\* res.status(status).json(...) / .end(): the handler of r is over.
Respond(r, kind, status, id, flushed, body) ==
  /\ resp' = [req |-> r, kind |-> kind, status |-> status, id |-> id,
              flushed |-> flushed, body |-> body, solo |-> req[r].solo,
              wrote |-> req[r].arr]
  /\ req' = [req EXCEPT ![r] = DoneReq]
  /\ hist' = [hist EXCEPT !.flushFailed = hist.flushFailed \/ flushed = "failed",
                          !.answered500 = hist.answered500 \/ status = 500]

SuccessOf(kind) == CASE kind = "POST" -> 201 [] kind = "PUT" -> 200 [] OTHER -> 204

\* app.get('/api/items') (lines 105-114, 248-257)
GetItems(r) ==
  /\ Arrives(r, "GET", EmptyId, NoBody, clock)
  /\ \E list \in SortedLists(items) : Respond(r, "GET", 200, EmptyId, "none", list)
  /\ UNCHANGED <<variant, phase, items, file, docs, firestoreDb, clock>>

\* A handler has changed the map to newItems and calls saveToDisk.
\*   flat file (lines 231-234): the array is taken from the map and turned to
\*   JSON at once; fs.writeFile then opens (truncates), writes and closes.
\*   Firestore (lines 67-91): getItemsCollection first; it throws only while
\*   firestoreDb is unset, and saveToDisk catches that and returns, so the
\*   handler goes on to its success response.
StartFlush(r, kind, id, newItems, body) ==
  LET alone == \A q \in Reqs : ~InFlight(q)
      others == [q \in Reqs |-> [req[q] EXCEPT !.solo = FALSE]]
      started(pc, arr) ==
        [others EXCEPT ![r] = [kind |-> kind, pc |-> pc, id |-> id, arr |-> arr,
                               ids |-> {}, body |-> body, solo |-> alone]]
  IN  \/ /\ variant = "file"
         /\ req' = started("open", newItems)
         /\ Silent
         /\ UNCHANGED firestoreDb
      \/ /\ variant = "firestore"
         /\ firestoreDb' = TRUE
         /\ req' = started("get", EmptyMap)
         /\ Silent
      \/ /\ variant = "firestore"
         /\ ~firestoreDb
         /\ firestoreDb' = firestoreDb
         /\ resp' = [req |-> r, kind |-> kind, status |-> SuccessOf(kind), id |-> id,
                     flushed |-> "failed", body |-> body, solo |-> alone,
                     wrote |-> EmptyMap]
         /\ req' = [others EXCEPT ![r] = DoneReq]
         /\ hist' = [hist EXCEPT !.flushFailed = TRUE]

\* app.post('/api/items') (lines 116-130, 259-273)
PostItem(r, payload, id, now) ==
  /\ Arrives(r, "POST", id, payload, now)
  /\ LET v == validateItem(payload)
     IN  IF ~v.ok
         THEN /\ Respond(r, "POST", 400, EmptyId, "none", <<>>)
              /\ UNCHANGED <<items, clock, firestoreDb>>
         ELSE LET item == NewItem(id, v.value, now)
              IN  /\ items' = Put(items, id, item)
                  /\ clock' = now
                  /\ StartFlush(r, "POST", id, items', <<item>>)
  /\ UNCHANGED <<variant, phase, file, docs>>

\* An update that creates the item when the id is absent: a faulty variant,
\* against which C17_NoEffect is seen to depend on the 404 guard.
PutItemUpsert(r, id, payload, now) ==
  /\ Arrives(r, "PUT", id, payload, now)
  /\ LET v == validateItem(payload)
     IN  IF ~v.ok
         THEN /\ Respond(r, "PUT", 400, id, "none", <<>>)
              /\ UNCHANGED <<items, clock, firestoreDb>>
         ELSE LET updated == IF id \in DOMAIN items
                             THEN UpdatedItem(items[id], v.value, now)
                             ELSE NewItem(id, v.value, now)
              IN  /\ items' = Put(items, id, updated)
                  /\ clock' = now
                  /\ StartFlush(r, "PUT", id, items', <<updated>>)
  /\ UNCHANGED <<variant, phase, file, docs>>

\* app.put('/api/items/:id') (lines 132-147, 275-290)
PutItem(r, id, payload, now) ==
  /\ Arrives(r, "PUT", id, payload, now)
  /\ LET v == validateItem(payload)
     IN  IF ~v.ok
         THEN /\ Respond(r, "PUT", 400, id, "none", <<>>)
              /\ UNCHANGED <<items, clock, firestoreDb>>
         ELSE IF id \notin DOMAIN items
         THEN /\ Respond(r, "PUT", 404, id, "none", <<>>)
              /\ UNCHANGED <<items, clock, firestoreDb>>
         ELSE LET updated == UpdatedItem(items[id], v.value, now)
              IN  /\ items' = Put(items, id, updated)
                  /\ clock' = now
                  /\ StartFlush(r, "PUT", id, items', <<updated>>)
  /\ UNCHANGED <<variant, phase, file, docs>>

\* app.delete('/api/items/:id') (lines 149-160, 292-303)
DeleteItem(r, id) ==
  /\ Arrives(r, "DELETE", id, NoBody, clock)
  /\ IF id \notin DOMAIN items
     THEN /\ Respond(r, "DELETE", 404, id, "none", <<>>)
          /\ UNCHANGED <<items, firestoreDb>>
     ELSE /\ items' = Remove(items, id)
          /\ StartFlush(r, "DELETE", id, items', <<>>)
  /\ UNCHANGED <<variant, phase, file, docs, clock>>

\* ------------------------------------------------- the flush, flat file
\* A handler whose catch sends nothing: a faulty variant, against which
\* C18_Answered is seen to depend on the catch's res.status(500).
FlushThrowsUnanswered(r) ==
  /\ req' = [req EXCEPT ![r].pc = "caught"]
  /\ Silent

\* fs.writeFile rejects: saveToDisk throws into the handler's catch, 500.
FlushThrows(r) == Respond(r, req[r].kind, 500, req[r].id, "failed", <<>>)

\* saveToDisk returns after its writes: the handler sends its success response.
FlushReturns(r) ==
  Respond(r, req[r].kind, SuccessOf(req[r].kind), req[r].id, "ok", req[r].body)

\* fs.writeFile opens the file with flag 'w', which truncates it.
FileOpen(r) ==
  /\ req[r].pc = "open"
  /\ \/ /\ file' = Truncated
        /\ req' = [req EXCEPT ![r].pc = "write"]
        /\ Silent
     \/ /\ file' = file
        /\ FlushThrows(r)
  /\ NoHandler
  /\ UNCHANGED <<variant, phase, items, docs, firestoreDb, clock>>

\* ... writes the JSON at offset 0 ...
FileWrite(r) ==
  /\ req[r].pc = "write"
  /\ \/ /\ file' = Overlay(file, req[r].arr)
        /\ req' = [req EXCEPT ![r].pc = "close"]
        /\ Silent
     \/ /\ file' = file
        /\ FlushThrows(r)
  /\ NoHandler
  /\ UNCHANGED <<variant, phase, items, docs, firestoreDb, clock>>

\* ... and resolves: saveToDisk returns and the handler sends its response.
FileClose(r) ==
  /\ req[r].pc = "close"
  /\ FlushReturns(r)
  /\ NoHandler
  /\ UNCHANGED <<variant, phase, items, file, docs, firestoreDb, clock>>

\* --------------------------------------------------- the flush, Firestore
\* A throw inside saveToDisk's try is caught and logged: saveToDisk returns
\* and the handler sends its success response.
FlushSwallows(r) ==
  Respond(r, req[r].kind, SuccessOf(req[r].kind), req[r].id, "failed", req[r].body)

\* col.get(): the server reads the collection.
FsGet(r) ==
  /\ req[r].pc = "get"
  /\ \/ /\ req' = [req EXCEPT ![r].ids = DOMAIN docs, ![r].pc = "batch"]
        /\ Silent
     \/ FlushSwallows(r)
  /\ NoHandler
  /\ UNCHANGED <<variant, phase, items, file, docs, firestoreDb, clock>>

\* The snapshot is back: the batch is built from the map as it is now.
\* col.doc('') throws (a document path must be a non-empty string).
FsBatch(r) ==
  /\ req[r].pc = "batch"
  /\ IF EmptyId \in DOMAIN items
     THEN FlushSwallows(r)
     ELSE /\ req' = [req EXCEPT ![r].arr = [i \in DOMAIN items |-> Rest(items[i])],
                                ![r].ids = req[r].ids \ DOMAIN items,
                                ![r].pc = "commit"]
          /\ Silent
  /\ NoHandler
  /\ UNCHANGED <<variant, phase, items, file, docs, firestoreDb, clock>>

\* batch.commit(): the server applies the batch, or rejects it.
FsCommit(r) ==
  /\ req[r].pc = "commit"
  /\ \/ /\ docs' = Commit(docs, req[r].arr, req[r].ids)
        /\ req' = [req EXCEPT ![r].pc = "return"]
        /\ Silent
     \/ /\ docs' = docs
        /\ FlushSwallows(r)
  /\ NoHandler
  /\ UNCHANGED <<variant, phase, items, file, firestoreDb, clock>>

\* The commit is back: saveToDisk returns and the handler responds.
FsReturn(r) ==
  /\ req[r].pc = "return"
  /\ FlushReturns(r)
  /\ NoHandler
  /\ UNCHANGED <<variant, phase, items, file, docs, firestoreDb, clock>>

\* ---------------------------------------------------------- specification
\* Date.now() never goes back; at most one tick passes between two handlers.
Nows == {n \in {clock, clock + 1} : n <= MaxClock}

Next ==
  \/ EnsureDataFile
  \/ LoadFromDisk
  \/ \E r \in Reqs : GetItems(r)
  \/ \E r \in Reqs, payload \in Payloads, id \in Ids, now \in Nows :
       PostItem(r, payload, id, now)
  \/ \E r \in Reqs, id \in Ids, payload \in Payloads, now \in Nows :
       PutItem(r, id, payload, now)
  \/ \E r \in Reqs, id \in Ids : DeleteItem(r, id)
  \/ \E r \in Reqs : FileOpen(r)
  \/ \E r \in Reqs : FileWrite(r)
  \/ \E r \in Reqs : FileClose(r)
  \/ \E r \in Reqs : FsGet(r)
  \/ \E r \in Reqs : FsBatch(r)
  \/ \E r \in Reqs : FsCommit(r)
  \/ \E r \in Reqs : FsReturn(r)

Spec == Init /\ [][Next]_vars

\* Every backend call a request awaits returns or fails in the end, and the
\* event loop then runs the handler on: the step of request r that follows
\* its pending call is taken sooner or later.
Completion(r) ==
  \/ FileOpen(r) \/ FileWrite(r) \/ FileClose(r)
  \/ FsGet(r) \/ FsBatch(r) \/ FsCommit(r) \/ FsReturn(r)

FairSpec == Spec /\ \A r \in Reqs : WF_vars(Completion(r))

\* ------------------------------------------- validateItem on its own
\* validateItem is a pure function of the request body: here it is applied
\* to every body of ValidatePayloads, outside any handler.
InitValidate ==
  /\ variant \in Variants
  /\ phase = "listening"
  /\ items = EmptyMap
  /\ file = (IF variant = "file" THEN JsonFile(EmptyMap) ELSE NoFile)
  /\ docs = EmptyMap
  /\ firestoreDb = (variant = "firestore")
  /\ clock = 0
  /\ req = [r \in Reqs |-> NewReq]
  /\ \E payload \in ValidatePayloads : call = [NoCall EXCEPT !.payload = payload]
  /\ before = EmptyMap
  /\ validated = NoResult
  /\ resp = NoResp
  /\ hist = [flushFailed |-> FALSE, answered500 |-> FALSE, loadFailed |-> FALSE]

ValidateItem ==
  /\ call.kind = "-"
  /\ call' = [call EXCEPT !.kind = "validateItem"]
  /\ validated' = validateItem(call.payload)
  /\ UNCHANGED <<variant, phase, items, file, docs, firestoreDb, clock, req, before,
                 resp, hist>>

NextValidate == ValidateItem

SpecValidate == InitValidate /\ [][NextValidate]_vars

\* ------------------------------------------------------ the list on its own
\* The list is a pure function of the map: here GET /api/items is served from
\* every map of up to three items, of any section and of names of which one
\* begins another, the backend holding what the map holds.
ListIds == {"k1", "k2", "k3"}
ListNames == {<<"Amy">>, <<"Bob">>, <<"Amy", Space, "Bob">>}
ListItems(i) ==
  { NewItem(i, [name |-> n, dish |-> <<"Pie">>, section |-> s], 0) :
      n \in ListNames, s \in Allowed }
ListMaps ==
  UNION { { m \in [ids -> UNION {ListItems(i) : i \in ids}] :
              \A i \in ids : m[i].id = i } : ids \in SUBSET ListIds }

InitList ==
  /\ variant \in Variants
  /\ phase = "listening"
  /\ items \in ListMaps
  /\ file = (IF variant = "file" THEN JsonFile(items) ELSE NoFile)
  /\ docs = (IF variant = "file" THEN EmptyMap ELSE [i \in DOMAIN items |-> Rest(items[i])])
  /\ firestoreDb = (variant = "firestore")
  /\ clock = 0
  /\ req = [r \in Reqs |-> NewReq]
  /\ call = NoCall
  /\ before = items
  /\ validated = NoResult
  /\ resp = NoResp
  /\ hist = [flushFailed |-> FALSE, answered500 |-> FALSE, loadFailed |-> FALSE]

NextList == \E r \in Reqs : GetItems(r)

SpecList == InitList /\ [][NextList]_vars

\* ------------------------------------------------- updates on their own
\* The server listens after a load that found one item; every request is an
\* update.
InitOverlap ==
  /\ variant \in Variants
  /\ phase = "listening"
  /\ \E seed \in Seeds \ {EmptyMap} :
       /\ items = seed
       /\ file = (IF variant = "file" THEN JsonFile(seed) ELSE NoFile)
       /\ docs = (IF variant = "file" THEN EmptyMap ELSE [i \in DOMAIN seed |-> Rest(seed[i])])
  /\ firestoreDb = (variant = "firestore")
  /\ clock = 0
  /\ req = [r \in Reqs |-> NewReq]
  /\ call = NoCall
  /\ before = items
  /\ validated = NoResult
  /\ resp = NoResp
  /\ hist = [flushFailed |-> FALSE, answered500 |-> FALSE, loadFailed |-> FALSE]

NextOverlap ==
  \/ \E r \in Reqs, id \in Ids, payload \in Payloads, now \in Nows :
       PutItem(r, id, payload, now)
  \/ \E r \in Reqs : FileOpen(r)
  \/ \E r \in Reqs : FileWrite(r)
  \/ \E r \in Reqs : FileClose(r)
  \/ \E r \in Reqs : FsGet(r)
  \/ \E r \in Reqs : FsBatch(r)
  \/ \E r \in Reqs : FsCommit(r)
  \/ \E r \in Reqs : FsReturn(r)

SpecOverlap == InitOverlap /\ [][NextOverlap]_vars

\* ================================================================= claims
Mutations == {"POST", "PUT", "DELETE"}

\* The step just taken answered a mutation with its success status.
Acked == resp.kind \in Mutations /\ resp.status = SuccessOf(resp.kind)

\* The step just taken entered a handler whose body passed validateItem.
PassedValidation ==
  /\ call.payload.name.t = "string" /\ Trim(call.payload.name.s) # <<>>
  /\ call.payload.dish.t = "string" /\ Trim(call.payload.dish.s) # <<>>
  /\ call.payload.section.t = "string"
  /\ ToLowerCase(Trim(call.payload.section.s)) \in Allowed

\* The durable backend holds exactly the ids of the in-memory map.
SameIds == BackendReadable /\ DOMAIN BackendItems = DOMAIN items

\* The durable backend holds exactly the items of the in-memory map.
SameItems == BackendReadable /\ BackendItems = items

\* What loadFromDisk leaves in the map of a process just started.
Reloaded == IF variant = "file" THEN LoadFile(file, EmptyMap) ELSE LoadDocs(docs)

\* C1 as stated: whenever a flush completes, whatever other requests overlap
\* it, the backend's id set equals the in-memory map's id set.
C1_AnyFlush == resp.flushed = "ok" => SameIds

\* C1 amended: whenever a flush completes and no other mutating request was in
\* flight at any time between its request's arrival and that completion, the
\* backend's id set equals the in-memory map's id set.
C1_SoloFlush == (resp.flushed = "ok" /\ resp.solo) => SameIds

\* A delete that ran alone has completed its flush, which had a backend id to
\* remove.
C1_Witness ==
  /\ resp.flushed = "ok" /\ resp.solo /\ resp.kind = "DELETE"
  /\ variant = "firestore"
  /\ docs = EmptyMap

\* C2: after every mutation answered with a success status, once no request
\* is in flight the backend holds the same items, with the same field values,
\* as the in-memory map.
C2_Converged == (Quiescent /\ Acked /\ ~hist.answered500) => SameItems

\* C3: a create, update or delete is answered with its success status only
\* after its own flush has completed successfully.
C3_AckAfterFlush == Acked => resp.flushed = "ok"

\* C4: a create whose flush fails is answered 500, and its item stays in the
\* in-memory map.
C4_CreateFlushFails ==
  (resp.kind = "POST" /\ resp.flushed = "failed") =>
    /\ resp.status = 500
    /\ resp.solo => resp.id \in DOMAIN items

\* C5: a create that passed validation keeps every item the map held, with
\* unchanged fields, and leaves the map with exactly one more item.
C5_FreshId ==
  (call.kind = "POST" /\ PassedValidation) =>
    /\ \A i \in DOMAIN before : i \in DOMAIN items /\ items[i] = before[i]
    /\ Cardinality(DOMAIN items) = Cardinality(DOMAIN before) + 1

\* The ids of a response body, and how often id i occurs in it.
BodyIds(body) == {body[k].id : k \in DOMAIN body}
Occurrences(body, i) == Cardinality({k \in DOMAIN body : body[k].id = i})

\* C6: a create with a valid payload puts its item in the map with createdAt
\* equal to updatedAt; an id leaves the map only through a delete of that id;
\* and a list returns every item of the map exactly once.  (An item is the
\* entry under its id.)
C6_CreateThenList ==
  /\ (call.kind = "POST" /\ PassedValidation) =>
       /\ call.id \in DOMAIN items
       /\ items[call.id].createdAt = items[call.id].updatedAt
  /\ \A i \in DOMAIN before \ DOMAIN items : call.kind = "DELETE" /\ call.id = i
  /\ call.kind = "GET" =>
       \A i \in DOMAIN items :
         /\ Occurrences(resp.body, i) = 1
         /\ \E k \in DOMAIN resp.body : resp.body[k] = items[i]

\* A list is answered while the create of an item it returns is still in flight.
C6_Witness ==
  /\ call.kind = "GET"
  /\ \E q \in Reqs :
       /\ req[q].kind = "POST" /\ InFlight(q)
       /\ Occurrences(resp.body, req[q].id) = 1

\* C7: an update of an existing id with a valid payload keeps id and
\* createdAt, takes name, dish and section from the normalized payload, sets
\* updatedAt to the current time; the body's id and timestamps are not stored.
C7_Update ==
  (call.kind = "PUT" /\ PassedValidation /\ call.id \in DOMAIN before) =>
    LET old == before[call.id]
        new == items[call.id]
    IN  /\ new.id = old.id
        /\ new.createdAt = old.createdAt
        /\ new.name = Trim(call.payload.name.s)
        /\ new.dish = Trim(call.payload.dish.s)
        /\ new.section = ToLowerCase(Trim(call.payload.section.s))
        /\ new.updatedAt = call.now
        /\ new.id # BodyId /\ new.createdAt # BodyStamp /\ new.updatedAt # BodyStamp

\* An update whose body carries an id and timestamps has changed an item.
C7_Witness ==
  /\ call.kind = "PUT" /\ PassedValidation /\ call.id \in DOMAIN before
  /\ call.payload.id.t = "string"
  /\ items[call.id] # before[call.id]
  /\ items[call.id].updatedAt # items[call.id].createdAt

\* C8 as stated: an update whose payload omits one of name, dish, section
\* succeeds and leaves the omitted field of the stored item untouched.
C8_PartialUpdate ==
  (call.kind = "PUT" /\ Omits(call.payload) /\ call.id \in DOMAIN before) =>
    /\ resp.status \notin {400, 404, 500}
    /\ call.id \in DOMAIN items
    /\ call.payload.name.t = "undefined" => items[call.id].name = before[call.id].name
    /\ call.payload.dish.t = "undefined" => items[call.id].dish = before[call.id].dish
    /\ call.payload.section.t = "undefined" =>
         items[call.id].section = before[call.id].section

\* C8 amended: an update whose payload omits one of name, dish, section is
\* answered 400, starts no flush and leaves the in-memory map untouched.
C8_PartialRejected ==
  (call.kind = "PUT" /\ Omits(call.payload)) =>
    /\ resp.status = 400
    /\ req[call.req].pc = "done"
    /\ items = before

\* An update of an existing item that omits a field has been answered.
C8_Witness ==
  /\ call.kind = "PUT" /\ Omits(call.payload)
  /\ call.id \in DOMAIN before
  /\ call.payload.name.t = "string"
  /\ resp.req = call.req

\* C9: a delete of a present id removes it from the map; an id enters the map
\* only through a create under that id (or the load at startup); a list
\* returns exactly the ids of the map; a delete of an absent id is answered
\* 404 and changes nothing.
C9_Delete ==
  /\ (call.kind = "DELETE" /\ call.id \in DOMAIN before) =>
       call.id \notin DOMAIN items /\ resp.status # 404
  /\ (call.kind = "DELETE" /\ call.id \notin DOMAIN before) =>
       resp.status = 404 /\ items = before
  /\ \A i \in DOMAIN items \ DOMAIN before :
       \/ call.kind = "POST" /\ call.id = i
       \/ call = NoCall /\ req = [r \in Reqs |-> NewReq]
  /\ call.kind = "GET" => BodyIds(resp.body) = DOMAIN items

\* A second delete of an id is answered 404 while the first is still flushing.
C9_Witness ==
  /\ call.kind = "DELETE" /\ resp.status = 404
  /\ \E q \in Reqs : InFlight(q) /\ req[q].kind = "DELETE" /\ req[q].id = call.id

\* C10: once every flush has succeeded and no request is in flight, a reload
\* from the durable backend yields the in-memory map.
C10_RoundTrip ==
  (Quiescent /\ resp.flushed = "ok" /\ ~hist.flushFailed) => Reloaded = items

\* What the specification's rules ask of a body p: which field fails.
NameFails(p) == p.name.t # "string" \/ Trim(p.name.s) = <<>>
DishFails(p) == p.dish.t # "string" \/ Trim(p.dish.s) = <<>>
SectionFails(p) ==
  p.section.t # "string" \/ ToLowerCase(Trim(p.section.s)) \notin Allowed

\* C11: validateItem rejects a body whose name is missing, no string or blank
\* with the name error whatever dish and section are; otherwise one whose
\* dish is missing, no string or blank with the dish error whatever section
\* is; otherwise one whose trimmed, lowercased section is not allowed with
\* the section error; otherwise it returns the trimmed name, the trimmed
\* dish and the trimmed, lowercased section.
C11_RuleOrder ==
  validated # NoResult =>
    LET p == call.payload
    IN  /\ NameFails(p) =>
             ~validated.ok /\ validated.error = "Name is required"
        /\ (~NameFails(p) /\ DishFails(p)) =>
             ~validated.ok /\ validated.error = "Dish is required"
        /\ (~NameFails(p) /\ ~DishFails(p) /\ SectionFails(p)) =>
             /\ ~validated.ok
             /\ validated.error = "Section must be one of appetizers, entree, dessert, beverages"
        /\ (~NameFails(p) /\ ~DishFails(p) /\ ~SectionFails(p)) =>
             /\ validated.ok
             /\ validated.value.name = Trim(p.name.s)
             /\ validated.value.dish = Trim(p.dish.s)
             /\ validated.value.section = ToLowerCase(Trim(p.section.s))
             /\ validated.value.section \in Allowed

\* validateItem has returned the name error for a body whose name is blank,
\* whose dish is no string and whose section is not allowed.
C11_Witness ==
  /\ validated.error = "Name is required"
  /\ call.payload.name = Str(<<Space>>)
  /\ call.payload.dish = Num
  /\ call.payload.section = Str(<<"Pie">>)

\* An item, or a document's data, with an allowed section and a name and a
\* dish that are not blank (hence not empty).
WellFormed(it) ==
  /\ it.section \in Allowed
  /\ it.name # <<>> /\ Trim(it.name) # <<>>
  /\ it.dish # <<>> /\ Trim(it.dish) # <<>>

\* C12: in every reachable state every item of the in-memory map and every
\* item of the durable backend has an allowed section, a non-empty name and a
\* non-empty dish.  (The backend starts empty or with what an earlier run of
\* the server stored; a file that is no JSON holds no item.)
C12_WellFormed ==
  /\ \A i \in DOMAIN items : WellFormed(items[i])
  /\ \A i \in DOMAIN file.arr : WellFormed(file.arr[i])
  /\ \A i \in DOMAIN docs : WellFormed(docs[i])

\* The map and the backend hold an item whose dish was sent with a leading
\* blank and an item whose section was sent in mixed case.
C12_Witness ==
  /\ BackendReadable
  /\ \E i \in DOMAIN BackendItems \cap DOMAIN items :
       BackendItems[i].dish = <<"Pie">> /\ items[i].dish = <<"Pie">>
  /\ \E i \in DOMAIN BackendItems \cap DOMAIN items :
       /\ BackendItems[i].section = <<"entree">> /\ items[i].section = <<"entree">>
       /\ BackendItems[i].updatedAt > 0

\* The sections in ascending order.
SectionIndex(sec) ==
  CASE sec = <<"appetizers">> -> 1
    [] sec = <<"beverages">> -> 2
    [] sec = <<"dessert">> -> 3
    [] sec = <<"entree">> -> 4
    [] OTHER -> 5

\* C13: a list returns every item of the in-memory map exactly once, ordered
\* by section ascending and, among items of one section, by name ascending
\* (names in the order of localeCompare).
C13_Sorted ==
  call.kind = "GET" =>
    /\ Len(resp.body) = Cardinality(DOMAIN items)
    /\ \A i \in DOMAIN items :
         /\ Occurrences(resp.body, i) = 1
         /\ \E k \in DOMAIN resp.body : resp.body[k] = items[i]
    /\ \A k \in DOMAIN resp.body : \A l \in DOMAIN resp.body :
         k < l =>
           \/ SectionIndex(resp.body[k].section) < SectionIndex(resp.body[l].section)
           \/ /\ resp.body[k].section = resp.body[l].section
              /\ LocaleCompare(resp.body[k].name, resp.body[l].name) <= 0

\* A list of three items has been returned: two of one section with different
\* names, then one of another section, the item stored last coming first.
C13_Witness ==
  /\ call.kind = "GET"
  /\ Len(resp.body) = 3
  /\ resp.body[1].section = resp.body[2].section
  /\ resp.body[1].name # resp.body[2].name
  /\ resp.body[2].section # resp.body[3].section
  /\ resp.body[1].id = "k3"

\* No request has arrived yet.
NoRequestYet == req = [r \in Reqs |-> NewReq]

\* C14: if the load at startup failed, the server listens, and until the
\* first request arrives the in-memory map is empty.
C14_LoadFails ==
  hist.loadFailed =>
    /\ phase = "listening"
    /\ NoRequestYet => items = EmptyMap

\* col.get() has failed at startup while the collection held an item: the
\* server listens with an empty map.
C14_Witness ==
  /\ hist.loadFailed /\ NoRequestYet
  /\ variant = "firestore" /\ firestoreDb
  /\ docs # EmptyMap
  /\ items = EmptyMap /\ phase = "listening"

\* C15: no failure of a backend or file-system operation, at startup or in
\* a flush, stops the process.
C15_NeverStops == phase # "crashed"

\* The item under id i that the flush of the response just sent wrote.
Written(i) == IF variant = "file" THEN resp.wrote[i] ELSE FromDoc(i, resp.wrote[i])

\* C16: when two updates of one id have overlapped and both have completed,
\* no flush having failed, the backend holds under that id the value written
\* by the flush that completed last.
C16_LastFlushWins ==
  (resp.kind = "PUT" /\ resp.flushed = "ok" /\ ~resp.solo /\ Quiescent
     /\ ~hist.flushFailed) =>
    /\ BackendReadable
    /\ resp.id \in DOMAIN BackendItems
    /\ BackendItems[resp.id] = Written(resp.id)

\* C17: a step that answers 400 or 404 leaves the in-memory map, the data
\* file and the collection as they were and starts no flush (the request goes
\* from not yet arrived to answered, every other request stays where it
\* was); and an update of an absent id does not put that id in the map.
C17_NoEffect ==
  [][ /\ resp'.status \in {400, 404} =>
           /\ resp'.kind \in {"POST", "PUT", "DELETE"}
           /\ resp'.flushed = "none"
           /\ items' = items
           /\ file' = file
           /\ docs' = docs
           /\ req[resp'.req].pc = "new"
           /\ req' = [req EXCEPT ![resp'.req] = DoneReq]
      /\ (call'.kind = "PUT" /\ call'.id \notin DOMAIN items) =>
           /\ resp'.status \in {400, 404}
           /\ call'.id \notin DOMAIN items'
    ]_vars

\* An update with a valid body of an id the map lacks has been answered 404
\* while the map holds another item and another request is flushing.
C17_Witness ==
  /\ call.kind = "PUT" /\ PassedValidation
  /\ resp.status = 404
  /\ call.id \notin DOMAIN items
  /\ items # EmptyMap
  /\ \E q \in Reqs : InFlight(q)

\* The statuses each method answers with.
Statuses(kind) ==
  CASE kind = "GET" -> {200, 500}
    [] kind = "POST" -> {201, 400, 500}
    [] kind = "PUT" -> {200, 400, 404, 500}
    [] kind = "DELETE" -> {204, 404, 500}
    [] OTHER -> {}

\* C18: when every pending backend call returns or fails in the end, every
\* request whose handler is suspended is answered in the end; a request is
\* answered in the very step that ends its handler and never again; and every
\* response carries a status listed for its method.
C18_Answered ==
  /\ \A r \in Reqs : InFlight(r) ~> (req[r].pc = "done")
  /\ [][ \A r \in Reqs :
            /\ resp'.req = r <=> (req[r].pc # "done" /\ req'[r].pc = "done")
            /\ req[r].pc = "done" => req'[r].pc = "done"
            /\ (req[r].pc = "new" /\ req'[r].pc # "new") =>
                 (InFlight(r)' \/ resp'.req = r) ]_vars
  /\ [](resp.req # 0 => resp.status \in Statuses(resp.kind))

\* A request whose flush failed has been answered 500 while another request
\* waits for its own flush.
C18_Witness ==
  /\ resp.status = 500
  /\ resp.kind \in {"POST", "PUT", "DELETE"}
  /\ \E q \in Reqs : InFlight(q) /\ q < resp.req

\* C19: in every reachable state every entry of the in-memory map is stored
\* under the id of its item, and no step changes the id of an item that
\* stays in the map.
C19_KeyIsId ==
  /\ \A i \in DOMAIN items : items[i].id = i
  /\ \A i \in DOMAIN before \cap DOMAIN items : items[i].id = before[i].id

\* The first request, an update whose body carries another id, has changed
\* an item that the load at startup made from a document.
C19_Witness ==
  /\ variant = "firestore"
  /\ call.kind = "PUT" /\ call.req = 1
  /\ call.payload.id = Str(<<BodyId>>)
  /\ call.id \in DOMAIN before
  /\ items[call.id] # before[call.id]

====
